---- MODULE Spec2Model ----
(***************************************************************************)
(* Holdit dashboard: the Session Gate (Dashboard.tsx), the Upload          *)
(* Coordinator (FileUpload.tsx), the File Catalog (FileList.tsx) and the   *)
(* Credential Vault View (PasswordManager.tsx), as state machines over the *)
(* remote object store, the remote record store and the session provider.  *)
(*                                                                         *)
(* Every await of the source is a suspension point: a handler is split     *)
(* into one action per stretch of code that runs without suspending.       *)
(* Three specifications share the variables: Spec (upload + catalog),      *)
(* GateSpec (the Dashboard's session gate) and VaultSpec (the credential   *)
(* vault); each leaves the other components' variables unchanged.          *)
(* CategorySpec applies getFileCategory to the names a listing can hold.   *)
(* CatalogSpec is the File Catalog alone, over a folder of three objects.  *)
(* RevealSpec is a list of three credentials with its reveal buttons.      *)
(* KeySpec is the upload and the catalog while the principal changes.      *)
(***************************************************************************)
EXTENDS Integers, Sequences, FiniteSets, TLC

VARIABLES
    session,            \* Session Provider: the live session (a principal id) or NoSession
    clock,              \* the last value Date.now() returned
    store,              \* Remote Object Store, bucket 'user-files': keys in creation order
    user,               \* Dashboard: useState<User | null>
    loading,            \* Dashboard: useState(true)
    fileRefreshTrigger, \* Dashboard: useState(0)
    isUploading,        \* FileUpload: useState(false)
    batches,            \* FileUpload: the handleFiles invocations, in start order
    files,              \* FileList: useState<FileItem[]>([])
    listLoading,        \* FileList: useState(true)  (its `loading`)
    loads,              \* FileList: the loadFiles invocations, in start order
    deletes,            \* FileList: the handleDelete invocations, in start order
    dashSession,        \* Dashboard: useState<any>(null)  (its `session`)
    mounted,            \* Dashboard is mounted (its effect's subscription is live)
    location,           \* the router's location
    initialCheck,       \* Dashboard: the getSession() call of its effect
    tab,                \* Dashboard: the active tab of <Tabs>
    signOut,            \* Dashboard: the handleSignOut invocation
    lastRun,            \* Dashboard: the callback that ran last, and its argument
    table,              \* Remote Record Store, table "passwords": rows in creation order
    passwords,          \* PasswordManager: useState<Password[]>([])
    vaultLoading,       \* PasswordManager: useState(true)  (its `loading`)
    isDialogOpen,       \* PasswordManager: useState(false)
    editingPassword,    \* PasswordManager: useState<Password | null>(null)
    submits,            \* PasswordManager: the form submissions, in start order
    fetches,            \* PasswordManager: the fetchPasswords invocations, in start order
    argFileName,        \* FileList: the argument of a getFileCategory call
    category,           \* FileList: what that call returned ("pending": not yet called)
    activeCategory,     \* FileList: useState<FileCategory | 'todos'>('todos')
    passwordDeletes,    \* PasswordManager: the handleDelete invocations, in start order
    transfers,          \* FileList: the handleOpenFile and handleDownload invocations
    visiblePasswords,   \* PasswordManager: useState<Set<string>>(new Set())
    toggleLog           \* PasswordManager: the togglePasswordVisibility calls so far

fileVars == <<session, clock, store, user, loading, fileRefreshTrigger,
              isUploading, batches, files, listLoading, loads, deletes>>

\* what only the upload and the catalog touch
uploadVars == <<clock, store, fileRefreshTrigger, isUploading, batches, files,
                listLoading, loads, deletes>>

\* what only the Dashboard touches
gateVars == <<dashSession, mounted, location, initialCheck, tab, signOut, lastRun>>

\* what only the credential vault touches
vaultVars == <<table, passwords, vaultLoading, isDialogOpen, editingPassword,
               submits, fetches>>

\* what the handlers of the three components above leave alone
categoryVars == <<argFileName, category>>

revealVars == <<visiblePasswords, toggleLog>>

extraVars == <<categoryVars, activeCategory, passwordDeletes, transfers, revealVars>>

vars == <<fileVars, gateVars, vaultVars, extraVars>>

----------------------------------------------------------------------------
(* Bounds of the model *)

\* requests to the object store on behalf of a file (puts, removes, signed
\* URLs, downloads) issued in one behaviour
MaxOps == 3

----------------------------------------------------------------------------
(* Values *)

NoSession == "null"
NoUser == "null"
NoEdit == [id |-> 0]
Principals == {"u1"}

\* A filename is the sequence of its dot-separated parts: "a.pdf" is <<"a", "pdf">>.
FileNames == {<<"a", "pdf">>, <<"b", "PNG">>}

\* `${Date.now()}-` in front of a name; NoStamp: nothing in front.
NoStamp == 0 - 1

\* One dot-separated part of a name as the catalog sees it: the text, and the
\* timestamp prefix glued to it (the first part of an uploaded name).
Part(pre, text) == [pre |-> pre, text |-> text]

LowerTable ==
    [t \in {"a", "b", "pdf", "png", "PNG", "PDF", "mp4", "MP4", "mp3", "README", "readme", ""} |->
        CASE t = "PNG" -> "png"
          [] t = "PDF" -> "pdf"
          [] t = "MP4" -> "mp4"
          [] t = "README" -> "readme"
          [] OTHER -> t]

\* String.prototype.toLowerCase on one part
toLowerCase(p) == Part(p.pre, LowerTable[p.text])

\* fileName.split('.') of a listed name [stamp, parts]: the stamp stays glued to
\* the first part
split(name) ==
    [i \in 1..Len(name.parts) |->
        Part(IF i = 1 THEN name.stamp ELSE NoStamp, name.parts[i])]

imageExtensions == {"jpg", "jpeg", "png", "gif", "webp", "svg", "bmp", "ico"}
videoExtensions == {"mp4", "avi", "mov", "mkv", "wmv", "flv", "webm", "m4v"}
documentExtensions == {"pdf", "doc", "docx", "txt", "xls", "xlsx", "ppt", "pptx", "odt", "rtf", "csv"}

\* array.includes(ext): ext is a bare extension of the table
includes(exts, ext) == ext.pre = NoStamp /\ ext.text \in exts

\* getFileCategory: the last part of split('.'), lower-cased, against the tables
getFileCategory(name) ==
    LET parts == split(name)
        ext == toLowerCase(parts[Len(parts)])
    IN  IF includes(imageExtensions, ext) THEN "imagenes"
        ELSE IF includes(videoExtensions, ext) THEN "videos"
        ELSE IF includes(documentExtensions, ext) THEN "documentos"
        ELSE "documentos"

\* `${user.id}/${Date.now()}-${file.name}`
filePath(uid, stamp, fileName) == [prefix |-> uid, stamp |-> stamp, parts |-> fileName]

\* `${user.id}/${file.name}` of a listed entry
itemPath(uid, name) == [prefix |-> uid, stamp |-> name.stamp, parts |-> name.parts]

\* the name the store lists a key under, inside the folder of its prefix
listedName(key) == [stamp |-> key.stamp, parts |-> key.parts]

\* no getFileCategory call under way
NoName == [stamp |-> NoStamp, parts |-> <<>>]

----------------------------------------------------------------------------
(* Sequence helpers *)

Reverse(s) == [i \in 1..Len(s) |-> s[Len(s) + 1 - i]]

Range(s) == {s[i] : i \in 1..Len(s)}

\* n successive readings of Date.now() in one synchronous run, the first being
\* `first`: each later one is the one before it (the same millisecond) or the next
RECURSIVE Readings(_, _)
Readings(n, first) ==
    IF n = 0 THEN {<<>>}
    ELSE IF n = 1 THEN {<<first>>}
    ELSE UNION {{<<first>> \o r : r \in Readings(n - 1, t)} : t \in {first, first + 1}}

\* the batches a user can drop: up to MaxOps files with names of FileNames
\* (one batch for each choice of names, whatever their order)
nameOrder(name) == IF name = <<"a", "pdf">> THEN 1 ELSE 2

Batches ==
    {fs \in UNION {[1..n -> FileNames] : n \in 0..MaxOps} :
        \A i \in DOMAIN fs : i > 1 => nameOrder(fs[i - 1]) <= nameOrder(fs[i])}

----------------------------------------------------------------------------
(* Upload Coordinator: FileUpload.tsx *)

\* One handleFiles invocation.  pc: "getSession" (suspended at line 25),
\* "awaitAll" (suspended at line 52), "done" (the finally block has run).
\* uid: the id of the `user` prop of the render whose closure the handler is.
\* keys[i] is the remote key of files[i]; put[i] is the state of its put:
\* "pending", "ok" or "error".  got: what getSession resolved with; error: the
\* put whose error the catch block received (0: none); notified:
\* onUploadComplete was called.  before (history, kept while a batch that
\* started with no put and no remove in flight is under way, and handed to the
\* loadFiles it triggers): when the batch started, the length of the catalog's
\* cache, whether that was the number of objects in the principal's folder,
\* and the number of deletes started.
noBefore == [quiet |-> FALSE, cached |-> 0, current |-> FALSE, deletes |-> 0]

beforeBatch ==
    IF /\ \A d \in DOMAIN deletes : deletes[d].pc # "remove"
       /\ \A c \in DOMAIN batches : \A i \in DOMAIN batches[c].put :
              batches[c].put[i] # "pending"
    THEN [quiet |-> TRUE, cached |-> Len(files),
          current |-> Len(files) = Len(SelectSeq(store, LAMBDA key : key.prefix = user)),
          deletes |-> Len(deletes)]
    ELSE noBefore

newBatch(fs) ==
    [files |-> fs, uid |-> user, pc |-> "getSession", got |-> "pending", keys |-> <<>>,
     put |-> <<>>, toasts |-> <<>>, error |-> 0, notified |-> FALSE,
     before |-> beforeBatch]

\* (mutant) the session check of line 26 left out
sessionPresent_Unchecked(s) == TRUE

\* `if (!session)` of line 26, negated
sessionPresent(s) == s # NoSession

\* (mutant) Promise.allSettled with the results left unread: fulfilled once
\* every put has settled
PromiseAll_Settled(put) ==
    IF \A i \in DOMAIN put : put[i] # "pending" THEN "fulfilled" ELSE "pending"

\* Promise.all over the puts: rejected as soon as one is, fulfilled when all are
PromiseAll(put) ==
    IF \E i \in DOMAIN put : put[i] = "error" THEN "rejected"
    ELSE IF \A i \in DOMAIN put : put[i] = "ok" THEN "fulfilled"
    ELSE "pending"

\* lines 27-32, then finally
authFailure(batch) ==
    [batch EXCEPT !.pc = "done", !.toasts = Append(@, "Error de autenticacion"),
                  !.before = noBefore]

\* lines 53-57, then finally
uploadSucceeded(batch) ==
    [batch EXCEPT !.pc = "done", !.toasts = Append(@, "Archivos subidos"),
                  !.notified = TRUE, !.before = noBefore]

\* lines 58-64, then finally
uploadFailed(batch, error) ==
    [batch EXCEPT !.pc = "done", !.toasts = Append(@, "Error al subir archivos"),
                  !.error = error, !.before = noBefore]

\* One loadFiles invocation.  pc: "list" (the request is on its way),
\* "served" (the store has answered, the answer is on its way), "done", "failed".
\* refreshes (history, dropped with data when the call ends): the batch whose
\* onUploadComplete started the call (0: the mount), and its `before`.
noRefresh == [batch |-> 0, before |-> noBefore]

newLoad ==
    [pc |-> "list", data |-> <<>>, uid |-> user, toasts |-> <<>>,
     refreshes |-> noRefresh]

\* the loadFiles started by the effect of FileList.tsx:103-105 when batch b
\* has bumped refreshTrigger
refreshLoad(b) ==
    [newLoad EXCEPT !.refreshes = [batch |-> b, before |-> batches[b].before]]

\* the puts and removes issued or about to be
RECURSIVE filesOf(_)
filesOf(bs) == IF bs = <<>> THEN 0 ELSE Len(Head(bs).files) + filesOf(Tail(bs))

opsStarted == filesOf(batches) + Len(deletes) + Len(transfers)

\* handleFiles up to its first await (lines 18-25).  The drop zone takes no
\* pointer events while isUploading (line 109).
HandleFiles(fs) ==
    /\ user # NoUser
    /\ ~isUploading
    /\ Len(fs) # 0
    /\ opsStarted + Len(fs) <= MaxOps
    /\ isUploading' = TRUE
    /\ batches' = Append(batches, newBatch(fs))
    /\ UNCHANGED <<session, clock, store, user, loading, fileRefreshTrigger,
                   files, listLoading, loads, deletes>>
    /\ UNCHANGED <<gateVars, vaultVars, extraVars>>

\* getSession resolves with no session: lines 26-33 and 65-67
UploadNoSession(b) ==
    /\ batches[b].pc = "getSession"
    /\ ~sessionPresent(session)
    /\ batches' = [batches EXCEPT ![b] = authFailure([@ EXCEPT !.got = session])]
    /\ isUploading' = FALSE
    /\ UNCHANGED <<session, clock, store, user, loading, fileRefreshTrigger,
                   files, listLoading, loads, deletes>>
    /\ UNCHANGED <<gateVars, vaultVars, extraVars>>

\* getSession resolves with a session: the map of lines 35-50 runs each async
\* callback up to its await, so every key is synthesized and every put issued
\* before anything else runs; Date.now() is read once per file.  At least one
\* network round trip lies between this run and the readings of an earlier
\* batch (its put had to complete for isUploading to fall): the clock has moved on.
UploadIssuePuts(b) ==
    /\ batches[b].pc = "getSession"
    /\ sessionPresent(session)
    /\ \E stamps \in Readings(Len(batches[b].files), clock + 1) :
        /\ clock' = stamps[Len(stamps)]
        /\ batches' = [batches EXCEPT
                ![b].pc = "awaitAll",
                ![b].got = session,
                ![b].keys = [i \in DOMAIN stamps |->
                                filePath(batches[b].uid, stamps[i], batches[b].files[i])],
                ![b].put = [i \in DOMAIN stamps |-> "pending"]]
    /\ UNCHANGED <<session, store, user, loading, fileRefreshTrigger,
                   isUploading, files, listLoading, loads, deletes>>
    /\ UNCHANGED <<gateVars, vaultVars, extraVars>>

\* A put succeeds (upsert: false: the key was free).  When that fulfils
\* Promise.all, lines 53-57 and the finally block run, and onUploadComplete
\* (Dashboard.tsx:112) bumps the trigger, whose effect (FileList.tsx:103-105)
\* starts a loadFiles.
UploadPutOk(b, i) ==
    /\ i \in DOMAIN batches[b].put
    /\ batches[b].put[i] = "pending"
    /\ batches[b].keys[i] \notin Range(store)
    /\ store' = Append(store, batches[b].keys[i])
    /\ LET put == [batches[b].put EXCEPT ![i] = "ok"]
           batch == [batches[b] EXCEPT !.put = put]
       IN  IF batch.pc = "awaitAll" /\ PromiseAll(put) = "fulfilled"
           THEN /\ batches' = [batches EXCEPT ![b] = uploadSucceeded(batch)]
                /\ isUploading' = FALSE
                /\ fileRefreshTrigger' = fileRefreshTrigger + 1
                /\ loads' = Append(loads, refreshLoad(b))
           ELSE /\ batches' = [batches EXCEPT ![b] = batch]
                /\ UNCHANGED <<isUploading, fileRefreshTrigger, loads>>
    /\ UNCHANGED <<session, clock, user, loading, files, listLoading, deletes>>
    /\ UNCHANGED <<gateVars, vaultVars, extraVars>>

\* A put is rejected by the store (the key is taken, or any other failure).
\* The first rejection rejects Promise.all: lines 45-48, 58-64 and the finally
\* block run.
UploadPutFail(b, i) ==
    /\ i \in DOMAIN batches[b].put
    /\ batches[b].put[i] = "pending"
    /\ LET put == [batches[b].put EXCEPT ![i] = "error"]
           batch == [batches[b] EXCEPT !.put = put]
       IN  IF batch.pc = "awaitAll" /\ PromiseAll(put) = "rejected"
           THEN /\ batches' = [batches EXCEPT ![b] = uploadFailed(batch, i)]
                /\ isUploading' = FALSE
           ELSE /\ batches' = [batches EXCEPT ![b] = batch]
                /\ UNCHANGED isUploading
    /\ UNCHANGED <<session, clock, store, user, loading, fileRefreshTrigger,
                   files, listLoading, loads, deletes>>
    /\ UNCHANGED <<gateVars, vaultVars, extraVars>>

----------------------------------------------------------------------------
(* File Catalog: FileList.tsx *)

\* (mutant) the listing stops after its first entry
list_FirstOnly(uid) ==
    LET mine == SelectSeq(store, LAMBDA key : key.prefix = uid)
        all == Reverse([i \in DOMAIN mine |-> listedName(mine[i])])
    IN  IF all = <<>> THEN <<>> ELSE <<Head(all)>>

\* storage.list(uid, sortBy created_at desc): the names under the folder, newest first
list(uid) ==
    LET mine == SelectSeq(store, LAMBDA key : key.prefix = uid)
    IN  Reverse([i \in DOMAIN mine |-> listedName(mine[i])])

\* lines 82-88: one listed entry as a FileItem
fileItem(uid, name) ==
    [name |-> name, path |-> itemPath(uid, name), category |-> getFileCategory(name)]

fileItems(uid, data) == [i \in DOMAIN data |-> fileItem(uid, data[i])]

\* the store answers a list request (lines 74-78) with the listing of that moment
ListServe(l) ==
    /\ loads[l].pc = "list"
    /\ loads' = [loads EXCEPT ![l].pc = "served", ![l].data = list(loads[l].uid)]
    /\ UNCHANGED <<session, clock, store, user, loading, fileRefreshTrigger,
                   isUploading, batches, files, listLoading, deletes>>
    /\ UNCHANGED <<gateVars, vaultVars, extraVars>>

\* (mutant) a listing shorter than the cache is taken for an older one and dropped
setFiles_KeepLonger(load) ==
    IF Len(load.data) < Len(files) THEN files ELSE fileItems(load.uid, load.data)

\* setFiles(fileItems) of line 90
setFiles(load) == fileItems(load.uid, load.data)

\* loadFiles after its await, the answer being a listing: lines 80-90, 98-100
LoadFilesOk(l) ==
    /\ loads[l].pc = "served"
    /\ loads' = [loads EXCEPT ![l].pc = "done", ![l].data = <<>>,
                              ![l].refreshes = noRefresh]
    /\ files' = setFiles(loads[l])
    /\ listLoading' = FALSE
    /\ UNCHANGED <<session, clock, store, user, loading, fileRefreshTrigger,
                   isUploading, batches, deletes>>
    /\ UNCHANGED <<gateVars, vaultVars, extraVars>>

\* loadFiles after its await, the answer being an error (the request or the
\* answer was lost, or the store refused): lines 80, 91-100
LoadFilesFail(l) ==
    /\ loads[l].pc \in {"list", "served"}
    /\ loads' = [loads EXCEPT ![l].pc = "failed", ![l].data = <<>>,
                              ![l].refreshes = noRefresh,
                              ![l].toasts = Append(@, "Error")]
    /\ listLoading' = FALSE
    /\ UNCHANGED <<session, clock, store, user, loading, fileRefreshTrigger,
                   isUploading, batches, files, deletes>>
    /\ UNCHANGED <<gateVars, vaultVars, extraVars>>

\* lines 107-109
getCategoryCount(cached, cat) == Len(SelectSeq(cached, LAMBDA f : f.category = cat))

\* lines 111-113, for a cache and an active category
filteredBy(cached, active) ==
    IF active = "todos" THEN cached
    ELSE SelectSeq(cached, LAMBDA f : f.category = active)

\* the files listed on the page (lines 111-113)
filteredFiles == filteredBy(files, activeCategory)

\* One handleDelete invocation: the file, and the `files` of the render whose
\* closure the handler is (line 175 reads that one).
newDelete(file) ==
    [file |-> file, captured |-> files, pc |-> "remove", toasts |-> <<>>]

\* handleDelete up to its await (lines 167-171); the list is rendered once
\* loading is over (line 190)
HandleDelete(k) ==
    /\ user # NoUser
    /\ ~listLoading
    /\ opsStarted < MaxOps
    /\ k \in DOMAIN files
    /\ files[k] \in Range(filteredFiles)
    /\ deletes' = Append(deletes, newDelete(files[k]))
    /\ UNCHANGED <<session, clock, store, user, loading, fileRefreshTrigger,
                   isUploading, batches, files, listLoading, loads>>
    /\ UNCHANGED <<gateVars, vaultVars, extraVars>>

\* line 175: files.filter(f => f.path !== file.path)
withoutFile(cached, file) == SelectSeq(cached, LAMBDA f : f.path # file.path)

\* remove resolves without error: lines 175-179
DeleteOk(d) ==
    /\ deletes[d].pc = "remove"
    /\ store' = SelectSeq(store, LAMBDA key : key # deletes[d].file.path)
    /\ files' = withoutFile(deletes[d].captured, deletes[d].file)
    /\ deletes' = [deletes EXCEPT ![d].pc = "done", ![d].captured = <<>>,
                                  ![d].toasts = Append(@, "Archivo eliminado")]
    /\ UNCHANGED <<session, clock, user, loading, fileRefreshTrigger,
                   isUploading, batches, listLoading, loads>>
    /\ UNCHANGED <<gateVars, vaultVars, extraVars>>

\* (mutant) the cache is updated before the outcome of remove is known
filesAfterFailedDelete_Optimistic(cached, del) == withoutFile(cached, del.file)

\* the cache after a failed remove (the catch block of lines 180-187 sets nothing)
filesAfterFailedDelete(cached, del) == cached

\* remove resolves with an error: lines 173 and 180-187
DeleteFail(d) ==
    /\ deletes[d].pc = "remove"
    /\ files' = filesAfterFailedDelete(files, deletes[d])
    /\ deletes' = [deletes EXCEPT ![d].pc = "failed", ![d].captured = <<>>,
                                  ![d].toasts = Append(@, "Error")]
    /\ UNCHANGED <<session, clock, store, user, loading, fileRefreshTrigger,
                   isUploading, batches, listLoading, loads>>
    /\ UNCHANGED <<gateVars, vaultVars, extraVars>>

\* One handleOpenFile or handleDownload invocation.  pc: "request" (suspended
\* at line 117 or 138), "done", "failed".  opened: window.open was called
\* (line 124); saved: the anchor was clicked (lines 144-151).
newTransfer(kind, file) ==
    [kind |-> kind, file |-> file, pc |-> "request", toasts |-> <<>>,
     opened |-> FALSE, saved |-> FALSE]

\* handleOpenFile up to its await (lines 115-119)
HandleOpenFile(k) ==
    /\ user # NoUser
    /\ ~listLoading
    /\ opsStarted < MaxOps
    /\ k \in DOMAIN files
    /\ files[k] \in Range(filteredFiles)
    /\ transfers' = Append(transfers, newTransfer("open", files[k]))
    /\ UNCHANGED <<fileVars, gateVars, vaultVars, categoryVars, activeCategory,
                   passwordDeletes, revealVars>>

\* handleDownload up to its await (lines 136-140)
HandleDownload(k) ==
    /\ user # NoUser
    /\ ~listLoading
    /\ opsStarted < MaxOps
    /\ k \in DOMAIN files
    /\ files[k] \in Range(filteredFiles)
    /\ transfers' = Append(transfers, newTransfer("download", files[k]))
    /\ UNCHANGED <<fileVars, gateVars, vaultVars, categoryVars, activeCategory,
                   passwordDeletes, revealVars>>

\* lines 123-125: the signed URL is opened, nothing is shown
openSucceeded(tr) == [tr EXCEPT !.pc = "done", !.opened = TRUE]

\* lines 144-156: the blob is saved and the toast shown
downloadSucceeded(tr) ==
    [tr EXCEPT !.pc = "done", !.saved = TRUE,
               !.toasts = Append(@, "Descarga iniciada")]

\* createSignedUrl or download answers with data: the object is in the store
TransferOk(t) ==
    /\ transfers[t].pc = "request"
    /\ transfers[t].file.path \in Range(store)
    /\ transfers' = [transfers EXCEPT ![t] =
            IF @.kind = "open" THEN openSucceeded(@) ELSE downloadSucceeded(@)]
    /\ UNCHANGED <<fileVars, gateVars, vaultVars, categoryVars, activeCategory,
                   passwordDeletes, revealVars>>

\* createSignedUrl or download answers with an error (the object is gone, or
\* any other failure): lines 121 and 126-133, or 142 and 157-164
TransferFail(t) ==
    /\ transfers[t].pc = "request"
    /\ transfers' = [transfers EXCEPT ![t].pc = "failed",
                                      ![t].toasts = Append(@, "Error")]
    /\ UNCHANGED <<fileVars, gateVars, vaultVars, categoryVars, activeCategory,
                   passwordDeletes, revealVars>>

----------------------------------------------------------------------------
(* Session Provider, as the upload and the catalog see it *)

\* the session ends (sign-out or expiry elsewhere); a new sign-in mounts the
\* components anew.  Only getSession reads the session here: the step is taken
\* when a handleFiles is waiting for it.
SessionEnd ==
    /\ session # NoSession
    /\ \E b \in DOMAIN batches : batches[b].pc = "getSession"
    /\ session' = NoSession
    /\ UNCHANGED <<clock, store, user, loading, fileRefreshTrigger,
                   isUploading, batches, files, listLoading, loads, deletes>>
    /\ UNCHANGED <<gateVars, vaultVars, extraVars>>

----------------------------------------------------------------------------
(* Upload + catalog: the Dashboard has resolved principal u1 and rendered
   FileUpload and FileList, whose mount effect has started a loadFiles. *)

OldKey == filePath("u1", 0, <<"a", "pdf">>)

Init ==
    /\ session = "u1"
    /\ clock = 0
    /\ store = <<OldKey>>
    /\ user = "u1"
    /\ loading = FALSE
    /\ fileRefreshTrigger = 0
    /\ isUploading = FALSE
    /\ batches = <<>>
    /\ files = <<>>
    /\ listLoading = TRUE
    /\ loads = <<[pc |-> "list", data |-> <<>>, uid |-> "u1", toasts |-> <<>>,
                   refreshes |-> noRefresh]>>
    /\ deletes = <<>>
    /\ dashSession = "u1"
    /\ mounted = TRUE
    /\ location = "/dashboard"
    /\ initialCheck = [pc |-> "done", value |-> "u1"]
    /\ tab = "files"
    /\ signOut = "idle"
    /\ lastRun = [op |-> "getSession", session |-> "u1"]
    /\ table = <<>>
    /\ passwords = <<>>
    /\ vaultLoading = TRUE
    /\ isDialogOpen = FALSE
    /\ editingPassword = NoEdit
    /\ submits = <<>>
    /\ fetches = <<>>
    /\ argFileName = NoName
    /\ category = "pending"
    /\ activeCategory = "todos"
    /\ passwordDeletes = <<>>
    /\ transfers = <<>>
    /\ visiblePasswords = {}
    /\ toggleLog = <<>>

Next ==
    \/ \E fs \in Batches : HandleFiles(fs)
    \/ \E b \in DOMAIN batches : UploadNoSession(b)
    \/ \E b \in DOMAIN batches : UploadIssuePuts(b)
    \/ \E b \in DOMAIN batches : \E i \in 1..MaxOps : UploadPutOk(b, i)
    \/ \E b \in DOMAIN batches : \E i \in 1..MaxOps : UploadPutFail(b, i)
    \/ \E l \in DOMAIN loads : ListServe(l)
    \/ \E l \in DOMAIN loads : LoadFilesOk(l)
    \/ \E l \in DOMAIN loads : LoadFilesFail(l)
    \/ \E k \in DOMAIN files : HandleDelete(k)
    \/ \E d \in DOMAIN deletes : DeleteOk(d)
    \/ \E d \in DOMAIN deletes : DeleteFail(d)
    \/ SessionEnd

Spec == Init /\ [][Next]_vars

----------------------------------------------------------------------------
(* Session Gate: Dashboard.tsx *)

\* session?.user ?? null (lines 26 and 36); a session is named by its principal
sessionUser(s) == IF s = NoSession THEN NoUser ELSE s

\* (mutant) the listener sets the state and leaves the redirect to the initial check
listenerRedirect_Missing(s, loc) == loc

\* lines 28-30: navigate("/auth") when the notification carries no session
listenerRedirect(s, loc) == IF s = NoSession THEN "/auth" ELSE loc

\* lines 39-41: navigate("/auth") when the initial check finds no session
initialRedirect(s, loc) == IF s = NoSession THEN "/auth" ELSE loc

\* The router takes the Dashboard down once the location has left it: in the
\* commit of the state updates made beside navigate(), or in a later one.
afterNavigate(loc) == IF loc = "/dashboard" THEN {TRUE} ELSE {TRUE, FALSE}

\* the listener of lines 24-31, called with session s
authListener(s) ==
    /\ dashSession' = s
    /\ user' = sessionUser(s)
    /\ location' = listenerRedirect(s, location)
    /\ mounted' \in afterNavigate(location')
    /\ lastRun' = [op |-> "onAuthStateChange", session |-> s]

\* The Session Provider changes or refreshes the session (here or in another
\* tab) and notifies its subscribers; the Dashboard is subscribed from mount
\* to unmount (line 44).
AuthStateChange(s) ==
    /\ session' = s
    /\ IF mounted
       THEN authListener(s)
       ELSE UNCHANGED <<dashSession, user, location, mounted, lastRun>>
    /\ UNCHANGED <<loading, initialCheck, tab, signOut>>
    /\ UNCHANGED <<uploadVars, vaultVars, extraVars>>

\* the Session Provider answers the getSession() of line 34
InitialCheckServe ==
    /\ initialCheck.pc = "pending"
    /\ initialCheck' = [pc |-> "served", value |-> session]
    /\ UNCHANGED <<session, user, loading, dashSession, mounted, location, tab,
                   signOut, lastRun>>
    /\ UNCHANGED <<uploadVars, vaultVars, extraVars>>

\* the then-callback of lines 34-42; nothing cancels it on unmount, where the
\* state setters do nothing and navigate still acts
InitialCheckResolve ==
    /\ initialCheck.pc = "served"
    /\ initialCheck' = [initialCheck EXCEPT !.pc = "done"]
    /\ IF mounted
       THEN /\ dashSession' = initialCheck.value
            /\ user' = sessionUser(initialCheck.value)
            /\ loading' = FALSE
       ELSE UNCHANGED <<dashSession, user, loading>>
    /\ location' = initialRedirect(initialCheck.value, location)
    /\ mounted' \in (IF mounted THEN afterNavigate(location') ELSE {FALSE})
    /\ lastRun' = [op |-> "getSession", session |-> initialCheck.value]
    /\ UNCHANGED <<session, tab, signOut>>
    /\ UNCHANGED <<uploadVars, vaultVars, extraVars>>

\* handleSignOut up to its await (lines 47-48); the button is rendered once
\* loading is over (line 56).  The user acts on the page while the location
\* is the Dashboard's: once navigate() has run, the page is on its way out.
HandleSignOut ==
    /\ mounted
    /\ location = "/dashboard"
    /\ ~loading
    /\ signOut = "idle"
    /\ signOut' = "awaiting"
    /\ UNCHANGED <<session, user, loading, dashSession, mounted, location,
                   initialCheck, tab, lastRun>>
    /\ UNCHANGED <<uploadVars, vaultVars, extraVars>>

\* the Session Provider ends the session on signOut() and notifies
SignOutServe ==
    /\ signOut = "awaiting"
    /\ signOut' = "served"
    /\ session' = NoSession
    /\ IF mounted
       THEN authListener(NoSession)
       ELSE UNCHANGED <<dashSession, user, location, mounted, lastRun>>
    /\ UNCHANGED <<loading, initialCheck, tab>>
    /\ UNCHANGED <<uploadVars, vaultVars, extraVars>>

\* handleSignOut after its await (lines 49-53), whether signOut() ended the
\* session or returned an error, which the code does not read
SignOutReturn ==
    /\ signOut \in {"awaiting", "served"}
    /\ signOut' = "done"
    /\ location' = "/"
    /\ mounted' \in (IF mounted THEN afterNavigate(location') ELSE {FALSE})
    /\ lastRun' = [op |-> "handleSignOut", session |-> session]
    /\ UNCHANGED <<session, user, loading, dashSession, initialCheck, tab>>
    /\ UNCHANGED <<uploadVars, vaultVars, extraVars>>

\* the user picks a tab (lines 87-95)
SelectTab(t) ==
    /\ mounted
    /\ location = "/dashboard"
    /\ ~loading
    /\ t # tab
    /\ tab' = t
    /\ UNCHANGED <<session, user, loading, dashSession, mounted, location,
                   initialCheck, signOut, lastRun>>
    /\ UNCHANGED <<uploadVars, vaultVars, extraVars>>

\* the router renders another route: the effect's cleanup unsubscribes (line 44)
Unmount ==
    /\ mounted
    /\ location # "/dashboard"
    /\ mounted' = FALSE
    /\ UNCHANGED <<session, user, loading, dashSession, location, initialCheck,
                   tab, signOut, lastRun>>
    /\ UNCHANGED <<uploadVars, vaultVars, extraVars>>

Tabs == {"files", "passwords"}

\* What the Dashboard renders (lines 56-145).  TabsContent renders the
\* content of the active tab only.
rendersLoading == mounted /\ loading

rendersFileUpload == mounted /\ ~loading /\ tab = "files" /\ user # NoUser

rendersFileList == mounted /\ ~loading /\ tab = "files" /\ user # NoUser

rendersPasswordManager == mounted /\ ~loading /\ tab = "passwords"

GateInit ==
    /\ session \in Principals \cup {NoSession}
    /\ user = NoUser
    /\ loading = TRUE
    /\ dashSession = NoSession
    /\ mounted = TRUE
    /\ location = "/dashboard"
    /\ initialCheck = [pc |-> "pending", value |-> NoSession]
    /\ tab = "files"
    /\ signOut = "idle"
    /\ lastRun = [op |-> "mount", session |-> NoSession]
    /\ clock = 0
    /\ store = <<>>
    /\ fileRefreshTrigger = 0
    /\ isUploading = FALSE
    /\ batches = <<>>
    /\ files = <<>>
    /\ listLoading = TRUE
    /\ loads = <<>>
    /\ deletes = <<>>
    /\ table = <<>>
    /\ passwords = <<>>
    /\ vaultLoading = TRUE
    /\ isDialogOpen = FALSE
    /\ editingPassword = NoEdit
    /\ submits = <<>>
    /\ fetches = <<>>
    /\ argFileName = NoName
    /\ category = "pending"
    /\ activeCategory = "todos"
    /\ passwordDeletes = <<>>
    /\ transfers = <<>>
    /\ visiblePasswords = {}
    /\ toggleLog = <<>>

GateNext ==
    \/ \E s \in Principals \cup {NoSession} : AuthStateChange(s)
    \/ InitialCheckServe
    \/ InitialCheckResolve
    \/ HandleSignOut
    \/ SignOutServe
    \/ SignOutReturn
    \/ \E t \in Tabs : SelectTab(t)
    \/ Unmount

GateSpec == GateInit /\ [][GateNext]_vars

----------------------------------------------------------------------------
(* Credential Vault View: PasswordManager.tsx *)

\* submissions of the form, and clicks on a record's delete button, in one
\* behaviour
MaxSubmits == 1

\* the length bounds of passwordSchema
MaxPlatformName == 100
MaxUsername == 255
MaxPassword == 500
MaxDescription == 500
MaxToken == 500

\* A field value: a string, known by its length and by how much of it is
\* leading or trailing white space (ws) and how much is left when trimmed
\* (body); or undefined (a field the form does not hold); or null.
Str(ws, body) == [kind |-> "string", ws |-> ws, body |-> body]
Undefined == [kind |-> "undefined", ws |-> 0, body |-> 0]
Null == [kind |-> "null", ws |-> 0, body |-> 0]

length(v) == v.ws + v.body

trim(v) == [v EXCEPT !.ws = 0]

\* z.string().min(lo).max(hi)
zString(v, lo, hi) == v.kind = "string" /\ length(v) >= lo /\ length(v) <= hi

\* z.string().max(hi).optional()
zOptionalString(v, hi) == v.kind = "undefined" \/ zString(v, 0, hi)

\* (mutant) no minimum on the platform name
passwordSchema_NoMin(data) ==
    /\ zString(data.platform_name, 0, MaxPlatformName)
    /\ zString(data.username, 1, MaxUsername)
    /\ zString(data.password, 1, MaxPassword)
    /\ zOptionalString(data.description, MaxDescription)
    /\ zOptionalString(data.token, MaxToken)

\* passwordSchema (lines 15-21): the data passes
passwordSchema(data) ==
    /\ zString(data.platform_name, 1, MaxPlatformName)
    /\ zString(data.username, 1, MaxUsername)
    /\ zString(data.password, 1, MaxPassword)
    /\ zOptionalString(data.description, MaxDescription)
    /\ zOptionalString(data.token, MaxToken)

\* `x || null` of lines 89-90
orNull(v) == IF v.kind = "string" /\ length(v) > 0 THEN v ELSE Null

\* the id the record store gives the row of submission o (ids are never
\* reused; the row saved earlier has id 1)
newId(o) == o + 1

\* (mutant) the token column is filled from the description
insertRow_TokenFromDescription(data, uid, id) ==
    [id |-> id, user_id |-> uid,
     platform_name |-> data.platform_name, username |-> data.username,
     password |-> data.password, description |-> orNull(data.description),
     token |-> orNull(data.description)]

\* the row of lines 85-92
insertRow(data, uid, id) ==
    [id |-> id, user_id |-> uid,
     platform_name |-> data.platform_name, username |-> data.username,
     password |-> data.password, description |-> orNull(data.description),
     token |-> orNull(data.token)]

\* update(data).eq("id", id), lines 72-75: the fields the data holds replace
\* the row's (an undefined field is not sent)
patched(old, new) == IF new.kind = "undefined" THEN old ELSE new

updateRow(row, data) ==
    [row EXCEPT !.platform_name = patched(@, data.platform_name),
                !.username = patched(@, data.username),
                !.password = patched(@, data.password),
                !.description = patched(@, data.description),
                !.token = patched(@, data.token)]

\* What the user can have typed: one filled form, and forms that differ from
\* it in one field.
BaseForm ==
    [platform_name |-> Str(0, 1), username |-> Str(0, 1), password |-> Str(0, 1),
     description |-> Str(0, 0), token |-> Str(0, 0)]

Forms ==
    {BaseForm}
    \cup {[BaseForm EXCEPT !.platform_name = v] :
            v \in {Str(0, 0), Str(1, 0), Str(0, MaxPlatformName), Str(0, MaxPlatformName + 1)}}
    \cup {[BaseForm EXCEPT !.username = v] : v \in {Str(0, 0), Str(0, MaxUsername + 1)}}
    \cup {[BaseForm EXCEPT !.password = v] : v \in {Str(2, 0), Str(0, MaxPassword + 1)}}
    \cup {[BaseForm EXCEPT !.description = v] :
            v \in {Undefined, Str(0, MaxDescription), Str(0, MaxDescription + 1)}}
    \cup {[BaseForm EXCEPT !.token = v] : v \in {Str(0, 1), Str(0, MaxToken + 1)}}

\* toast({ variant: "destructive", title: "Error", description: error.message })
errorToast(message) == [title |-> "Error", description |-> message]

\* toast({ title, description }) of lines 78-81 and 95-98
successToast(title) == [title |-> title, description |-> "ok"]

\* One fetchPasswords invocation.  pc: "select" (the request is on its way),
\* "served", "done", "failed".
newFetch == [pc |-> "select", data |-> <<>>, toasts |-> <<>>]

\* One submission of the form.  pc: "rejected" (the resolver found errors),
\* "getUser", "insert", "update" (suspended at that call), "done", "failed".
\* editing: the editingPassword of the render the handler belongs to; calls:
\* the remote calls made; got: what getUser resolved with; closed, refetched:
\* lines 101 and 104 have run; sessionAtSubmit: the provider's session when
\* the form was submitted (history, read by no action).
newSubmit(data) ==
    [data |-> data, editing |-> editingPassword,
     pc |-> IF passwordSchema(data) THEN "getUser" ELSE "rejected",
     calls |-> IF passwordSchema(data) THEN <<"getUser">> ELSE <<>>,
     got |-> "pending", toasts |-> <<>>, closed |-> FALSE, refetched |-> FALSE,
     sessionAtSubmit |-> session]

\* DialogTrigger: onOpenChange(true), line 196
OpenDialog ==
    /\ ~vaultLoading
    /\ ~isDialogOpen
    /\ isDialogOpen' = TRUE
    /\ UNCHANGED <<session, table, passwords, vaultLoading, editingPassword,
                   submits, fetches>>
    /\ UNCHANGED <<user, loading, uploadVars, gateVars, extraVars>>

\* handleEdit (lines 138-142) on a listed record
HandleEdit(k) ==
    /\ ~vaultLoading
    /\ ~isDialogOpen
    /\ k \in DOMAIN passwords
    /\ editingPassword' = passwords[k]
    /\ isDialogOpen' = TRUE
    /\ UNCHANGED <<session, table, passwords, vaultLoading, submits, fetches>>
    /\ UNCHANGED <<user, loading, uploadVars, gateVars, extraVars>>

\* handleCloseDialog (lines 164-174)
HandleCloseDialog ==
    /\ isDialogOpen
    /\ isDialogOpen' = FALSE
    /\ editingPassword' = NoEdit
    /\ UNCHANGED <<session, table, passwords, vaultLoading, submits, fetches>>
    /\ UNCHANGED <<user, loading, uploadVars, gateVars, extraVars>>

\* handleSubmit(onSubmit) (line 211): the zod resolver runs first; onSubmit
\* (lines 66-68) is called with data that passed it
Submit(data) ==
    /\ isDialogOpen
    /\ Len(submits) + Len(passwordDeletes) < MaxSubmits
    /\ submits' = Append(submits, newSubmit(data))
    /\ UNCHANGED <<session, table, passwords, vaultLoading, isDialogOpen,
                   editingPassword, fetches>>
    /\ UNCHANGED <<user, loading, uploadVars, gateVars, extraVars>>

\* (mutant) line 69 left out
userPresent_Unchecked(u) == TRUE

\* `if (!user)` of line 69, negated
userPresent(u) == u # NoUser

\* getUser resolves with no user (no session, or the call failed): lines 69, 105-111
SubmitNoUser(o) ==
    /\ submits[o].pc = "getUser"
    /\ ~userPresent(sessionUser(session))
    /\ submits' = [submits EXCEPT ![o].pc = "failed", ![o].got = sessionUser(session),
                                  ![o].toasts = Append(@, errorToast("Usuario no autenticado"))]
    /\ UNCHANGED <<session, table, passwords, vaultLoading, isDialogOpen,
                   editingPassword, fetches>>
    /\ UNCHANGED <<user, loading, uploadVars, gateVars, extraVars>>

\* getUser resolves with the user: the update (lines 71-75) or the insert
\* (lines 83-92) is issued
SubmitIssue(o) ==
    /\ submits[o].pc = "getUser"
    /\ userPresent(sessionUser(session))
    /\ submits' = [submits EXCEPT
            ![o].got = sessionUser(session),
            ![o].pc = IF submits[o].editing # NoEdit THEN "update" ELSE "insert",
            ![o].calls = Append(@, IF submits[o].editing # NoEdit THEN "update" ELSE "insert")]
    /\ UNCHANGED <<session, table, passwords, vaultLoading, isDialogOpen,
                   editingPassword, fetches>>
    /\ UNCHANGED <<user, loading, uploadVars, gateVars, extraVars>>

\* lines 101-104 after a successful insert or update, with its toast
submitSucceeded(sub, title) ==
    [sub EXCEPT !.pc = "done", !.toasts = Append(@, successToast(title)), !.closed = TRUE,
                !.refetched = TRUE, !.calls = Append(@, "select")]

\* the insert succeeds: lines 94-104
InsertOk(o) ==
    /\ submits[o].pc = "insert"
    /\ table' = Append(table, insertRow(submits[o].data, submits[o].got, newId(o)))
    /\ submits' = [submits EXCEPT ![o] = submitSucceeded(@, "Contrasena guardada")]
    /\ isDialogOpen' = FALSE
    /\ editingPassword' = NoEdit
    /\ fetches' = Append(fetches, newFetch)
    /\ UNCHANGED <<session, passwords, vaultLoading>>
    /\ UNCHANGED <<user, loading, uploadVars, gateVars, extraVars>>

\* the update succeeds: lines 77-81, 101-104
UpdateOk(o) ==
    /\ submits[o].pc = "update"
    /\ table' = [i \in DOMAIN table |->
                    IF table[i].id = submits[o].editing.id
                    THEN updateRow(table[i], submits[o].data) ELSE table[i]]
    /\ submits' = [submits EXCEPT ![o] = submitSucceeded(@, "Contrasena actualizada")]
    /\ isDialogOpen' = FALSE
    /\ editingPassword' = NoEdit
    /\ fetches' = Append(fetches, newFetch)
    /\ UNCHANGED <<session, passwords, vaultLoading>>
    /\ UNCHANGED <<user, loading, uploadVars, gateVars, extraVars>>

\* the insert or the update fails: lines 77 or 94, 105-111
WriteFail(o) ==
    /\ submits[o].pc \in {"insert", "update"}
    /\ submits' = [submits EXCEPT ![o].pc = "failed",
                                  ![o].toasts = Append(@, errorToast("write error"))]
    /\ UNCHANGED <<session, table, passwords, vaultLoading, isDialogOpen,
                   editingPassword, fetches>>
    /\ UNCHANGED <<user, loading, uploadVars, gateVars, extraVars>>

\* One handleDelete invocation of PasswordManager.  pc: "declined" (confirm
\* answered no: returned at line 115), "delete" (suspended at line 118),
\* "done", "failed".  calls: the remote calls made; refetched: line 127 has run.
newPasswordDelete(id, answer) ==
    [id |-> id, confirmed |-> answer, pc |-> "delete", calls |-> <<"delete">>,
     toasts |-> <<>>, refetched |-> FALSE]

\* (mutant) the answer to confirm() is not read
declined_Never(answer) == FALSE

\* `if (!confirm(...)) return` of line 115
declined(answer) == ~answer

\* handleDelete of PasswordManager up to its await (lines 114-121), on a
\* listed record, the user answering the confirm() of line 115
PasswordHandleDelete(k, answer) ==
    /\ ~vaultLoading
    /\ k \in DOMAIN passwords
    /\ Len(submits) + Len(passwordDeletes) < MaxSubmits
    /\ passwordDeletes' = Append(passwordDeletes,
            IF declined(answer)
            THEN [newPasswordDelete(passwords[k].id, answer) EXCEPT
                    !.pc = "declined", !.calls = <<>>]
            ELSE newPasswordDelete(passwords[k].id, answer))
    /\ UNCHANGED <<session, user, loading, uploadVars, gateVars, vaultVars,
                   categoryVars, activeCategory, transfers, revealVars>>

\* the delete succeeds (also when no row has that id any more): lines 122-127
PasswordDeleteOk(d) ==
    /\ passwordDeletes[d].pc = "delete"
    /\ table' = SelectSeq(table, LAMBDA row : row.id # passwordDeletes[d].id)
    /\ passwordDeletes' = [passwordDeletes EXCEPT
            ![d].pc = "done",
            ![d].toasts = Append(@, successToast("Contrasena eliminada")),
            ![d].refetched = TRUE,
            ![d].calls = Append(@, "select")]
    /\ fetches' = Append(fetches, newFetch)
    /\ UNCHANGED <<session, passwords, vaultLoading, isDialogOpen, editingPassword,
                   submits>>
    /\ UNCHANGED <<user, loading, uploadVars, gateVars, categoryVars, activeCategory,
                   transfers, revealVars>>

\* the delete fails: lines 122, 128-134
PasswordDeleteFail(d) ==
    /\ passwordDeletes[d].pc = "delete"
    /\ passwordDeletes' = [passwordDeletes EXCEPT
            ![d].pc = "failed",
            ![d].toasts = Append(@, errorToast("delete error"))]
    /\ UNCHANGED <<session, user, loading, uploadVars, gateVars, vaultVars,
                   categoryVars, activeCategory, transfers, revealVars>>

\* select("*").order("created_at", descending) (lines 48-51): the rows of the
\* session's principal, newest first
select(uid) == Reverse(SelectSeq(table, LAMBDA row : row.user_id = uid))

\* the store answers the select
FetchServe(f) ==
    /\ fetches[f].pc = "select"
    /\ fetches' = [fetches EXCEPT ![f].pc = "served", ![f].data = select(session)]
    /\ UNCHANGED <<session, table, passwords, vaultLoading, isDialogOpen,
                   editingPassword, submits>>
    /\ UNCHANGED <<user, loading, uploadVars, gateVars, extraVars>>

\* fetchPasswords after its await, with rows: lines 53-54, 61-63
FetchOk(f) ==
    /\ fetches[f].pc = "served"
    /\ fetches' = [fetches EXCEPT ![f].pc = "done", ![f].data = <<>>]
    /\ passwords' = fetches[f].data
    /\ vaultLoading' = FALSE
    /\ UNCHANGED <<session, table, isDialogOpen, editingPassword, submits>>
    /\ UNCHANGED <<user, loading, uploadVars, gateVars, extraVars>>

\* fetchPasswords after its await, with an error: lines 53, 55-63
FetchFail(f) ==
    /\ fetches[f].pc \in {"select", "served"}
    /\ fetches' = [fetches EXCEPT ![f].pc = "failed", ![f].data = <<>>,
                                  ![f].toasts = Append(@, errorToast("select error"))]
    /\ vaultLoading' = FALSE
    /\ UNCHANGED <<session, table, passwords, isDialogOpen, editingPassword, submits>>
    /\ UNCHANGED <<user, loading, uploadVars, gateVars, extraVars>>

\* the session ends while the view is mounted (the gate's listener has not
\* yet run, or the page has not yet been replaced)
VaultSessionEnd ==
    /\ session # NoSession
    /\ session' = NoSession
    /\ UNCHANGED vaultVars
    /\ UNCHANGED <<user, loading, uploadVars, gateVars, extraVars>>

\* a record saved earlier
OldRow == insertRow(BaseForm, "u1", 1)

\* The passwords tab has been opened by principal u1: PasswordManager is
\* mounted and its effect (lines 42-44) has started a fetchPasswords.
VaultInit ==
    /\ session = "u1"
    /\ user = "u1"
    /\ loading = FALSE
    /\ dashSession = "u1"
    /\ mounted = TRUE
    /\ location = "/dashboard"
    /\ initialCheck = [pc |-> "done", value |-> "u1"]
    /\ tab = "passwords"
    /\ signOut = "idle"
    /\ lastRun = [op |-> "getSession", session |-> "u1"]
    /\ clock = 0
    /\ store = <<>>
    /\ fileRefreshTrigger = 0
    /\ isUploading = FALSE
    /\ batches = <<>>
    /\ files = <<>>
    /\ listLoading = TRUE
    /\ loads = <<>>
    /\ deletes = <<>>
    /\ table = <<OldRow>>
    /\ passwords = <<>>
    /\ vaultLoading = TRUE
    /\ isDialogOpen = FALSE
    /\ editingPassword = NoEdit
    /\ submits = <<>>
    /\ fetches = <<newFetch>>
    /\ argFileName = NoName
    /\ category = "pending"
    /\ activeCategory = "todos"
    /\ passwordDeletes = <<>>
    /\ transfers = <<>>
    /\ visiblePasswords = {}
    /\ toggleLog = <<>>

VaultNext ==
    \/ OpenDialog
    \/ \E k \in DOMAIN passwords : HandleEdit(k)
    \/ HandleCloseDialog
    \/ \E data \in Forms : Submit(data)
    \/ \E o \in DOMAIN submits : SubmitNoUser(o)
    \/ \E o \in DOMAIN submits : SubmitIssue(o)
    \/ \E o \in DOMAIN submits : InsertOk(o)
    \/ \E o \in DOMAIN submits : UpdateOk(o)
    \/ \E o \in DOMAIN submits : WriteFail(o)
    \/ \E f \in DOMAIN fetches : FetchServe(f)
    \/ \E f \in DOMAIN fetches : FetchOk(f)
    \/ \E f \in DOMAIN fetches : FetchFail(f)
    \/ \E k \in DOMAIN passwords, answer \in BOOLEAN : PasswordHandleDelete(k, answer)
    \/ \E d \in DOMAIN passwordDeletes : PasswordDeleteOk(d)
    \/ \E d \in DOMAIN passwordDeletes : PasswordDeleteFail(d)
    \/ VaultSessionEnd

VaultSpec == VaultInit /\ [][VaultNext]_vars

----------------------------------------------------------------------------
(* getFileCategory on its own: FileList.tsx, lines 25-37 *)

\* dot-separated parts of the names getFileCategory is given
MaxParts == 2

\* the three components at rest, for the specifications that leave them alone
uploadIdle ==
    /\ session = "u1"
    /\ user = "u1"
    /\ loading = FALSE
    /\ clock = 0
    /\ store = <<>>
    /\ fileRefreshTrigger = 0
    /\ isUploading = FALSE
    /\ batches = <<>>
    /\ files = <<>>
    /\ listLoading = FALSE
    /\ loads = <<>>
    /\ deletes = <<>>

gateIdle ==
    /\ dashSession = "u1"
    /\ mounted = TRUE
    /\ location = "/dashboard"
    /\ initialCheck = [pc |-> "done", value |-> "u1"]
    /\ tab = "files"
    /\ signOut = "idle"
    /\ lastRun = [op |-> "getSession", session |-> "u1"]

vaultIdle ==
    /\ table = <<>>
    /\ passwords = <<>>
    /\ vaultLoading = TRUE
    /\ isDialogOpen = FALSE
    /\ editingPassword = NoEdit
    /\ submits = <<>>
    /\ fetches = <<>>

\* The names a listing of the principal's folder can hold: what this program
\* uploaded (a timestamp in front) and what got there another way (none), of
\* up to MaxParts parts.
ListedNames ==
    {[stamp |-> st, parts |-> ps] :
        st \in {NoStamp, 0}, ps \in UNION {[1..n -> DOMAIN LowerTable] : n \in 1..MaxParts}}
    \ {[stamp |-> NoStamp, parts |-> <<"">>]}

\* line 87: getFileCategory(file.name)
GetFileCategory ==
    /\ category = "pending"
    /\ category' = getFileCategory(argFileName)
    /\ UNCHANGED <<argFileName, activeCategory, passwordDeletes, transfers,
                   revealVars, fileVars, gateVars, vaultVars>>

CategoryInit ==
    /\ uploadIdle
    /\ gateIdle
    /\ vaultIdle
    /\ argFileName \in ListedNames
    /\ category = "pending"
    /\ activeCategory = "todos"
    /\ passwordDeletes = <<>>
    /\ transfers = <<>>
    /\ visiblePasswords = {}
    /\ toggleLog = <<>>

CategoryNext == GetFileCategory

CategorySpec == CategoryInit /\ [][CategoryNext]_vars

----------------------------------------------------------------------------
(* File Catalog on its own: FileList.tsx over a folder that holds a document,
   an image and a video, with no upload under way *)

Categories == {"documentos", "imagenes", "videos"}

\* the values of the category tabs (lines 303-320)
Filters == Categories \cup {"todos"}

\* onValueChange of line 303
SetActiveCategory(v) ==
    /\ ~listLoading
    /\ v # activeCategory
    /\ activeCategory' = v
    /\ UNCHANGED <<categoryVars, passwordDeletes, transfers, revealVars, fileVars,
                   gateVars, vaultVars>>

OldImage == filePath("u1", 0, <<"b", "PNG">>)

OldVideo == filePath("u1", 0, <<"a", "mp4">>)

CatalogInit ==
    /\ gateIdle
    /\ vaultIdle
    /\ session = "u1"
    /\ user = "u1"
    /\ loading = FALSE
    /\ clock = 0
    /\ store = <<OldKey, OldImage, OldVideo>>
    /\ fileRefreshTrigger = 0
    /\ isUploading = FALSE
    /\ batches = <<>>
    /\ files = <<>>
    /\ listLoading = TRUE
    /\ loads = <<newLoad>>
    /\ deletes = <<>>
    /\ argFileName = NoName
    /\ category = "pending"
    /\ activeCategory = "todos"
    /\ passwordDeletes = <<>>
    /\ transfers = <<>>
    /\ visiblePasswords = {}
    /\ toggleLog = <<>>

CatalogNext ==
    \/ \E l \in DOMAIN loads : ListServe(l)
    \/ \E l \in DOMAIN loads : LoadFilesOk(l)
    \/ \E l \in DOMAIN loads : LoadFilesFail(l)
    \/ \E k \in DOMAIN files : HandleDelete(k)
    \/ \E d \in DOMAIN deletes : DeleteOk(d)
    \/ \E d \in DOMAIN deletes : DeleteFail(d)
    \/ \E v \in Filters : SetActiveCategory(v)
    \/ \E k \in DOMAIN files : HandleOpenFile(k)
    \/ \E k \in DOMAIN files : HandleDownload(k)
    \/ \E t \in DOMAIN transfers : TransferOk(t)
    \/ \E t \in DOMAIN transfers : TransferFail(t)

CatalogSpec == CatalogInit /\ [][CatalogNext]_vars

----------------------------------------------------------------------------
(* Reveal and hide: PasswordManager.tsx, lines 144-154 *)

\* calls of togglePasswordVisibility in one behaviour
MaxToggles == 3

\* (mutant) the id is added, never taken out
toggled_AddOnly(visible, id) == visible \cup {id}

\* the updater of lines 145-153
toggled(visible, id) ==
    IF id \in visible THEN visible \ {id} ELSE visible \cup {id}

\* togglePasswordVisibility(pwd.id), from the button of a listed record
\* (line 331).  toggleLog keeps, for each call, the id and whether the record
\* was revealed before it.
TogglePasswordVisibility(k) ==
    /\ ~vaultLoading
    /\ k \in DOMAIN passwords
    /\ Len(toggleLog) < MaxToggles
    /\ visiblePasswords' = toggled(visiblePasswords, passwords[k].id)
    /\ toggleLog' = Append(toggleLog,
            [id |-> passwords[k].id, was |-> passwords[k].id \in visiblePasswords])
    /\ UNCHANGED <<fileVars, gateVars, vaultVars, categoryVars, activeCategory,
                   passwordDeletes, transfers>>

\* two more records saved earlier
OtherRow ==
    insertRow([BaseForm EXCEPT !.token = Str(0, 1), !.description = Undefined], "u1", 2)

ThirdRow == insertRow([BaseForm EXCEPT !.platform_name = Str(0, MaxPlatformName)], "u1", 3)

\* the passwords tab has been opened on a table of three records
RevealInit ==
    /\ uploadIdle
    /\ gateIdle
    /\ table = <<OldRow, OtherRow, ThirdRow>>
    /\ passwords = <<>>
    /\ vaultLoading = TRUE
    /\ isDialogOpen = FALSE
    /\ editingPassword = NoEdit
    /\ submits = <<>>
    /\ fetches = <<newFetch>>
    /\ argFileName = NoName
    /\ category = "pending"
    /\ activeCategory = "todos"
    /\ passwordDeletes = <<>>
    /\ transfers = <<>>
    /\ visiblePasswords = {}
    /\ toggleLog = <<>>

RevealNext ==
    \/ \E k \in DOMAIN passwords : TogglePasswordVisibility(k)
    \/ \E f \in DOMAIN fetches : FetchServe(f)
    \/ \E f \in DOMAIN fetches : FetchOk(f)
    \/ \E f \in DOMAIN fetches : FetchFail(f)
    \/ OpenDialog
    \/ \E k \in DOMAIN passwords : HandleEdit(k)
    \/ HandleCloseDialog

RevealSpec == RevealInit /\ [][RevealNext]_vars

----------------------------------------------------------------------------
(* Upload + catalog while the signed-in principal changes: the Session
   Provider notifies the Dashboard of a session of another principal (a
   sign-in in another tab), and FileUpload and FileList, which stay mounted,
   get the new `user` prop. *)

\* principal changes notified in one behaviour
MaxSwitches == 1

Accounts == {"u1", "u2"}

\* an object of the other principal, in its own folder
OtherKey == filePath("u2", 0, <<"b", "PNG">>)

\* the names dropped here: with an extension, and with none
KeyNames == {<<"a", "pdf">>, <<"b", "PNG">>, <<"png">>}

\* requests to the object store on behalf of a file issued in one behaviour
\* of KeySpec
MaxKeyOps == 2

\* one file is dropped at a time
KeyBatches == {<<name>> : name \in KeyNames}

keyBudget == opsStarted < MaxKeyOps

\* the changes of principal so far: each started a loadFiles for the new one
switches == Cardinality({l \in DOMAIN loads : l > 1 /\ loads[l].uid # loads[l - 1].uid})

\* The listener of Dashboard.tsx:24-27 runs with a session of principal s:
\* setSession, setUser; `user` is a dependency of the effect of
\* FileList.tsx:103-105, which starts a loadFiles for s.  Nothing resets
\* `files` or `loading` of FileList, and the calls in flight go on.
PrincipalChange(s) ==
    /\ mounted
    /\ user # NoUser
    /\ s # user
    /\ switches < MaxSwitches
    /\ session' = s
    /\ dashSession' = s
    /\ user' = sessionUser(s)
    /\ lastRun' = [op |-> "onAuthStateChange", session |-> s]
    /\ loads' = Append(loads, [newLoad EXCEPT !.uid = sessionUser(s)])
    /\ UNCHANGED <<clock, store, loading, fileRefreshTrigger, isUploading,
                   batches, files, listLoading, deletes>>
    /\ UNCHANGED <<mounted, location, initialCheck, tab, signOut>>
    /\ UNCHANGED <<vaultVars, extraVars>>

KeyInit ==
    /\ session = "u1"
    /\ clock = 0
    /\ store = <<OldKey, OtherKey>>
    /\ user = "u1"
    /\ loading = FALSE
    /\ fileRefreshTrigger = 0
    /\ isUploading = FALSE
    /\ batches = <<>>
    /\ files = <<>>
    /\ listLoading = TRUE
    /\ loads = <<newLoad>>
    /\ deletes = <<>>
    /\ dashSession = "u1"
    /\ mounted = TRUE
    /\ location = "/dashboard"
    /\ initialCheck = [pc |-> "done", value |-> "u1"]
    /\ tab = "files"
    /\ signOut = "idle"
    /\ lastRun = [op |-> "getSession", session |-> "u1"]
    /\ vaultIdle
    /\ argFileName = NoName
    /\ category = "pending"
    /\ activeCategory = "todos"
    /\ passwordDeletes = <<>>
    /\ transfers = <<>>
    /\ visiblePasswords = {}
    /\ toggleLog = <<>>

KeyNext ==
    \/ \E fs \in KeyBatches : keyBudget /\ HandleFiles(fs)
    \/ \E b \in DOMAIN batches : UploadNoSession(b)
    \/ \E b \in DOMAIN batches : UploadIssuePuts(b)
    \/ \E b \in DOMAIN batches : \E i \in 1..MaxOps : UploadPutOk(b, i)
    \/ \E b \in DOMAIN batches : \E i \in 1..MaxOps : UploadPutFail(b, i)
    \/ \E l \in DOMAIN loads : ListServe(l)
    \/ \E l \in DOMAIN loads : LoadFilesOk(l)
    \/ \E l \in DOMAIN loads : LoadFilesFail(l)
    \/ \E k \in DOMAIN files : keyBudget /\ HandleDelete(k)
    \/ \E d \in DOMAIN deletes : DeleteOk(d)
    \/ \E d \in DOMAIN deletes : DeleteFail(d)
    \/ \E k \in DOMAIN files : keyBudget /\ HandleOpenFile(k)
    \/ \E k \in DOMAIN files : keyBudget /\ HandleDownload(k)
    \/ \E t \in DOMAIN transfers : TransferOk(t)
    \/ \E t \in DOMAIN transfers : TransferFail(t)
    \/ SessionEnd
    \/ \E s \in Accounts : PrincipalChange(s)

KeySpec == KeyInit /\ [][KeyNext]_vars

----------------------------------------------------------------------------
(* Claims about the Upload Coordinator and the File Catalog, under Spec *)

\* C1: a handleFiles whose getSession resolved with no session has issued no
\* put, has shown the authentication error and nothing else, and has finished;
\* while it is the latest batch, isUploading is false again.
C1_NoSessionNoPuts ==
    \A b \in DOMAIN batches :
        batches[b].got = NoSession =>
            /\ batches[b].keys = <<>>
            /\ batches[b].put = <<>>
            /\ batches[b].toasts = <<"Error de autenticacion">>
            /\ batches[b].pc = "done"
            /\ b = Len(batches) => ~isUploading

C1_Witness ==
    \E b \in DOMAIN batches :
        /\ batches[b].got = NoSession
        /\ batches[b].files # <<>>
        /\ batches[b].pc = "done"

\* a successful handleDelete took the key out of the store
removedByUser(key) ==
    \E d \in DOMAIN deletes : deletes[d].pc = "done" /\ deletes[d].file.path = key

\* C2: a batch one of whose puts failed is reported failed, once, with the
\* error of a put that failed, never as a success; and every object of the
\* batch whose put succeeded is still in the store, unless the user deleted it
\* through the catalog.
C2_AnyFailureFailsBatch ==
    \A b \in DOMAIN batches :
        (\E i \in DOMAIN batches[b].put : batches[b].put[i] = "error") =>
            /\ batches[b].pc = "done"
            /\ batches[b].toasts = <<"Error al subir archivos">>
            /\ batches[b].error \in DOMAIN batches[b].put
            /\ batches[b].put[batches[b].error] = "error"
            /\ ~batches[b].notified
            /\ \A i \in DOMAIN batches[b].put :
                    batches[b].put[i] = "ok" =>
                        \/ batches[b].keys[i] \in Range(store)
                        \/ removedByUser(batches[b].keys[i])

C2_Witness ==
    \E b \in DOMAIN batches :
        /\ \E i \in DOMAIN batches[b].put : batches[b].put[i] = "error"
        /\ \E i \in DOMAIN batches[b].put :
                batches[b].put[i] = "ok" /\ batches[b].keys[i] \in Range(store)
        /\ \A i \in DOMAIN batches[b].put : batches[b].put[i] # "pending"

\* C3 (as claimed): the keys of one batch are pairwise distinct.
C3_KeysPairwiseDistinct ==
    \A b \in DOMAIN batches :
        \A i, j \in DOMAIN batches[b].keys :
            i # j => batches[b].keys[i] # batches[b].keys[j]

\* C4 (as claimed): when a batch has produced its outcome (toast shown,
\* isUploading reset) none of its puts is still in flight.
C4_OutcomeAfterEveryPut ==
    \A b \in DOMAIN batches :
        batches[b].pc = "done" =>
            \A i \in DOMAIN batches[b].put : batches[b].put[i] # "pending"

\* C5 (as claimed): every batch that issued its puts and completed, succeeded
\* or failed, has called onUploadComplete.
C5_CompletionAlwaysNotified ==
    \A b \in DOMAIN batches :
        (batches[b].pc = "done" /\ batches[b].put # <<>>) => batches[b].notified

\* C6: the step in which a remove fails leaves the cached file list as it was
\* and shows the error notification, and only that.
C6_FailedDeleteKeepsCache ==
    [][\A d \in DOMAIN deletes :
          (deletes[d].pc = "remove" /\ deletes'[d].pc = "failed") =>
              /\ files' = files
              /\ deletes'[d].toasts = <<"Error">>]_vars

C6_Witness ==
    \E d \in DOMAIN deletes :
        /\ deletes[d].pc = "failed"
        /\ \E k \in DOMAIN files : files[k].path = deletes[d].file.path

----------------------------------------------------------------------------
(* Claims about the Session Gate, under GateSpec *)

\* C7 (as claimed): whenever the Dashboard renders FileUpload, FileList or
\* PasswordManager, user is non-null; and until the initial getSession has
\* resolved, it renders the loading state only.
C7_DependentsHavePrincipal ==
    /\ (rendersFileUpload \/ rendersFileList \/ rendersPasswordManager) =>
            user # NoUser
    /\ (mounted /\ initialCheck.pc # "done") =>
            /\ rendersLoading
            /\ ~(rendersFileUpload \/ rendersFileList \/ rendersPasswordManager)

\* C8: after a session-change notification that carried no session was
\* handled by the mounted Dashboard, the principal is cleared and the location
\* is the login view, whatever ran before it.
C8_SessionLossRedirects ==
    (lastRun.op = "onAuthStateChange" /\ lastRun.session = NoSession) =>
        /\ user = NoUser
        /\ dashSession = NoSession
        /\ location = "/auth"

\* a loss notified after the initial check had established principal u1 and
\* after the user had signed out from this page
C8_Witness ==
    /\ lastRun.op = "onAuthStateChange"
    /\ lastRun.session = NoSession
    /\ initialCheck = [pc |-> "done", value |-> "u1"]
    /\ signOut = "served"
    /\ user = NoUser
    /\ location = "/auth"

----------------------------------------------------------------------------
(* Claims about the Credential Vault View (VaultSpec) *)

\* what the specification calls an invalid submission: a required field
\* empty after trimming, or a field over its length bound
emptyAfterTrim(v) == v.kind # "string" \/ length(trim(v)) = 0

overBound(v, hi) == v.kind = "string" /\ length(v) > hi

invalidSubmission(data) ==
    \/ emptyAfterTrim(data.platform_name)
    \/ emptyAfterTrim(data.username)
    \/ emptyAfterTrim(data.password)
    \/ overBound(data.platform_name, MaxPlatformName)
    \/ overBound(data.username, MaxUsername)
    \/ overBound(data.password, MaxPassword)
    \/ overBound(data.description, MaxDescription)
    \/ overBound(data.token, MaxToken)

\* C9: a submission in which a required field is empty after trimming, or a
\* field exceeds its length bound, makes no remote call (getUser, insert,
\* update, select).
C9_InvalidMakesNoCall ==
    \A o \in DOMAIN submits :
        invalidSubmission(submits[o].data) => submits[o].calls = <<>>

\* C10: a valid submission made after the session has become null ends with
\* the authentication error: the only remote call is getUser (no insert, no
\* update, no select of a re-fetch), the one notification is the error toast
\* carrying "Usuario no autenticado", and the handler neither closes the
\* dialog nor re-fetches.
C10_NoSessionSubmitFails ==
    \A o \in DOMAIN submits :
        (submits[o].sessionAtSubmit = NoSession /\ passwordSchema(submits[o].data)) =>
            /\ submits[o].pc \in {"getUser", "failed"}
            /\ submits[o].calls = <<"getUser">>
            /\ ~submits[o].closed
            /\ ~submits[o].refetched
            /\ submits[o].toasts =
                   IF submits[o].pc = "failed"
                   THEN <<errorToast("Usuario no autenticado")>> ELSE <<>>

\* a valid submission made without a session has failed, with the dialog
\* still open and the table as it was
C10_Witness ==
    \E o \in DOMAIN submits :
        /\ submits[o].sessionAtSubmit = NoSession
        /\ passwordSchema(submits[o].data)
        /\ submits[o].pc = "failed"
        /\ submits[o].toasts = <<errorToast("Usuario no autenticado")>>
        /\ isDialogOpen
        /\ table = <<OldRow>>

----------------------------------------------------------------------------
(* Claims about getFileCategory (CategorySpec) *)

\* the extension of a name: its last part when the name has a dot, none ("")
\* when it has no dot
extensionOf(name) ==
    IF Len(name.parts) < 2 THEN "" ELSE LowerTable[name.parts[Len(name.parts)]]

\* the category the specification gives a name
categoryByExtension(name) ==
    IF extensionOf(name) \in imageExtensions THEN "imagenes"
    ELSE IF extensionOf(name) \in videoExtensions THEN "videos"
    ELSE "documentos"

\* C11: the category getFileCategory returns is the one the lower-cased
\* extension of the name determines, and a name with an unrecognized
\* extension or with no dot at all gets "documentos".
C11_CategoryByExtension ==
    category # "pending" => category = categoryByExtension(argFileName)

----------------------------------------------------------------------------
(* Claims about the refresh after an upload (Spec) *)

\* the loadFiles l was started by a batch that began with nothing in flight,
\* and no put or remove has been issued since by anyone else
undisturbedRefresh(l) ==
    /\ loads[l].refreshes.before.quiet
    /\ Len(deletes) = loads[l].refreshes.before.deletes
    /\ \A c \in DOMAIN batches : c > loads[l].refreshes.batch => batches[c].put = <<>>

\* the step in which loadFiles l sets the cache from its listing
refreshResolves(l) == loads[l].pc = "served" /\ loads'[l].pc = "done"

----------------------------------------------------------------------------
(* Claims about the File Catalog's view (CatalogSpec) *)

\* the step in which handleDelete d, its remove having succeeded, sets the cache
deleteSucceeds(d) == deletes[d].pc = "remove" /\ deletes'[d].pc = "done"

\* C13: a successful delete removes exactly its object from the cache: the
\* object is in the filtered view of no category filter, the count of its
\* category drops by one, the counts of the other categories and the active
\* filter stay as they were.
C13_DeleteRemovesExactlyOne ==
    [][\A d \in DOMAIN deletes :
        deleteSucceeds(d) =>
            /\ files' = withoutFile(files, deletes[d].file)
            /\ \A v \in Filters : deletes[d].file \notin Range(filteredBy(files', v))
            /\ \A cat \in Categories :
                   getCategoryCount(files', cat) =
                       IF cat = deletes[d].file.category
                       THEN getCategoryCount(files, cat) - 1
                       ELSE getCategoryCount(files, cat)
            /\ activeCategory' = activeCategory]_vars

----------------------------------------------------------------------------
(* Claims about deleting a credential (VaultSpec) *)

\* the invocations of seq that ended "done"
doneIn(seq) == Cardinality({i \in DOMAIN seq : seq[i].pc = "done"})

\* C14: a credential delete makes its remote delete only when the user has
\* confirmed, and no remote call when the user declined; it re-fetches the
\* list (select) only after the remote delete has succeeded, never after a
\* failed one: the fetchPasswords calls are the mount's and one for each
\* submission or delete that succeeded.
C14_DeleteConfirmedThenRefetched ==
    /\ \A d \in DOMAIN passwordDeletes :
        /\ ~passwordDeletes[d].confirmed =>
               passwordDeletes[d].pc = "declined" /\ passwordDeletes[d].calls = <<>>
        /\ passwordDeletes[d].confirmed =>
               /\ passwordDeletes[d].pc \in {"delete", "done", "failed"}
               /\ passwordDeletes[d].calls =
                      IF passwordDeletes[d].pc = "done"
                      THEN <<"delete", "select">> ELSE <<"delete">>
        /\ passwordDeletes[d].refetched <=> passwordDeletes[d].pc = "done"
    /\ Len(fetches) = 1 + doneIn(submits) + doneIn(passwordDeletes)

\* a confirmed delete has succeeded, taken the row from the table and started
\* the re-fetch
C14_Witness ==
    \E d \in DOMAIN passwordDeletes :
        /\ passwordDeletes[d].confirmed
        /\ passwordDeletes[d].pc = "done"
        /\ passwordDeletes[d].calls = <<"delete", "select">>
        /\ table = <<>>
        /\ Len(fetches) = 2

----------------------------------------------------------------------------
(* Claims about create-then-list (VaultSpec) *)

\* submission o created a record, which no later submission has edited, and
\* listed[k] is that record as fetchPasswords put it in the list
listedCreation(o, k) ==
    /\ submits[o].pc = "done"
    /\ submits[o].editing = NoEdit
    /\ k \in DOMAIN passwords
    /\ passwords[k].id = newId(o)
    /\ \A e \in DOMAIN submits : submits[e].editing = NoEdit \/ submits[e].editing.id # newId(o)

\* the optional field as submitted comes back as it was
sameOptional(submitted, listed) == listed = submitted

\* the optional field comes back as submitted when it was a non-empty string,
\* and as null when it was empty or left out
sameOrAbsent(submitted, listed) ==
    IF submitted.kind = "string" /\ length(submitted) > 0
    THEN listed = submitted
    ELSE listed = Null

\* C15 (as claimed): the listed record of a valid creation has the field
\* values that were submitted, optional fields submitted as empty strings
\* included.
C15_CreateThenListIdentical ==
    \A o \in DOMAIN submits : \A k \in DOMAIN passwords :
        listedCreation(o, k) =>
            /\ passwords[k].platform_name = submits[o].data.platform_name
            /\ passwords[k].username = submits[o].data.username
            /\ passwords[k].password = submits[o].data.password
            /\ sameOptional(submits[o].data.description, passwords[k].description)
            /\ sameOptional(submits[o].data.token, passwords[k].token)

\* C15 (amended): the listed record of a valid creation has the submitted
\* platform name, username and secret, and each optional field as submitted
\* when it was non-empty, null when it was empty or left out.
C15_CreateThenListNormalized ==
    \A o \in DOMAIN submits : \A k \in DOMAIN passwords :
        listedCreation(o, k) =>
            /\ passwords[k].platform_name = submits[o].data.platform_name
            /\ passwords[k].username = submits[o].data.username
            /\ passwords[k].password = submits[o].data.password
            /\ sameOrAbsent(submits[o].data.description, passwords[k].description)
            /\ sameOrAbsent(submits[o].data.token, passwords[k].token)

\* a creation with a token and an empty description is listed, with the
\* record saved earlier
C15_Witness ==
    \E o \in DOMAIN submits : \E k \in DOMAIN passwords :
        /\ listedCreation(o, k)
        /\ length(submits[o].data.token) > 0
        /\ passwords[k].token = submits[o].data.token
        /\ submits[o].data.description = Str(0, 0)
        /\ passwords[k].description = Null
        /\ Len(passwords) = 2

----------------------------------------------------------------------------
(* Claims about notifications (CatalogSpec) *)

\* every invocation of seq that has ended has shown exactly one toast
oneToastEach(seq, ended) ==
    \A i \in DOMAIN seq : seq[i].pc \in ended => Len(seq[i].toasts) = 1

\* C16: every user action that ran (an upload batch, a file open, a file
\* download, a file delete, a credential create or update, a confirmed
\* credential delete) ends with exactly one notification.
C16_OneNotificationPerAction ==
    /\ oneToastEach(batches, {"done"})
    /\ oneToastEach(transfers, {"done", "failed"})
    /\ oneToastEach(deletes, {"done", "failed"})
    /\ oneToastEach(submits, {"done", "failed"})
    /\ oneToastEach(passwordDeletes, {"done", "failed"})

----------------------------------------------------------------------------
(* Claims about concurrency (Spec) *)

\* a put of batch b is in flight
putInFlight(b) == \E i \in DOMAIN batches[b].put : batches[b].put[i] = "pending"

\* C17: from the start of a batch until every put of it has completed,
\* isUploading is true (so that no second batch can be started), and puts of
\* two different batches are never in flight at the same time.
C17_UploadingUntilAllPutsDone ==
    /\ \A b \in DOMAIN batches :
        (batches[b].pc # "done" \/ putInFlight(b)) => isUploading
    /\ \A b, c \in DOMAIN batches :
        (putInFlight(b) /\ putInFlight(c)) => b = c

\* the step in which loadFiles l ends with an error
loadFails(l) == loads[l].pc \in {"list", "served"} /\ loads'[l].pc = "failed"

\* C18: refreshes are not coalesced (the mount and every bump of the trigger
\* have their own loadFiles); whichever loadFiles resolves, in whatever order
\* and with others still in flight, sets the cache to the listing it was
\* given, so that the one resolving last decides; one that fails leaves the
\* cache as it was.
C18_LastResolvedLoadWins ==
    [][/\ Len(loads') = 1 + fileRefreshTrigger'
       /\ \A l \in DOMAIN loads :
            /\ refreshResolves(l) => files' = fileItems(loads[l].uid, loads[l].data)
            /\ loadFails(l) => files' = files]_vars

\* two refreshes have resolved, the one that listed first resolving last:
\* the cache is its listing, which lacks the object uploaded since
C18_Witness ==
    /\ Len(loads) = 2
    /\ \A l \in DOMAIN loads : loads[l].pc = "done"
    /\ deletes = <<>>
    /\ Len(store) = 2
    /\ Len(files) = 1

----------------------------------------------------------------------------
(* Claims about reveal and hide (RevealSpec) *)

\* the step is a call of togglePasswordVisibility
toggles == Len(toggleLog') = Len(toggleLog) + 1

\* the id of that call
toggledId == toggleLog'[Len(toggleLog')].id

\* the call is local: the other ids keep their reveal state, the record list
\* and the stored records are as they were
toggleIsLocal ==
    /\ visiblePasswords' \ {toggledId} = visiblePasswords \ {toggledId}
    /\ passwords' = passwords
    /\ table' = table

\* C19 (as claimed): a toggle is local, and the third of three calls in a row
\* on one id that was hidden before the first (reveal, reveal, hide) leaves
\* the record hidden.
C19_RevealRevealHideHidden ==
    [][toggles =>
        /\ toggleIsLocal
        /\ (/\ Len(toggleLog) >= 2
            /\ toggleLog[Len(toggleLog)].id = toggledId
            /\ toggleLog[Len(toggleLog) - 1].id = toggledId
            /\ ~toggleLog[Len(toggleLog) - 1].was) =>
                toggledId \notin visiblePasswords']_vars

\* C19 (amended): a toggle is local and flips the reveal state of its id, and
\* the second of two calls in a row on one id puts the record back in the
\* state it had before the first (so the third of three leaves a record that
\* was hidden revealed).
C19_ToggleTwiceRestores ==
    [][toggles =>
        /\ toggleIsLocal
        /\ (toggledId \in visiblePasswords') # (toggledId \in visiblePasswords)
        /\ (/\ Len(toggleLog) >= 1
            /\ toggleLog[Len(toggleLog)].id = toggledId) =>
                (toggledId \in visiblePasswords') = toggleLog[Len(toggleLog)].was]_vars

\* three calls in a row on a record that was hidden: it is revealed, the
\* other records are hidden still
C19_Witness ==
    /\ Len(toggleLog) = 3
    /\ \A i \in DOMAIN toggleLog : toggleLog[i].id = 1
    /\ ~toggleLog[1].was
    /\ visiblePasswords = {1}
    /\ Len(passwords) = 3

----------------------------------------------------------------------------
(* Claims about deletes racing with deletes and refreshes (Spec) *)

\* C20: an object whose delete has succeeded and updated the cache is not in
\* the cache again, whatever other deletes and refreshes were in flight.
C20_DeletedNeverReappears ==
    \A d \in DOMAIN deletes :
        deletes[d].pc = "done" =>
            \A k \in DOMAIN files : files[k].path # deletes[d].file.path

----------------------------------------------------------------------------
(* Claims about the initial check racing with notifications (GateSpec) *)

\* the then-callback of getSession() runs in this step
initialCheckResolves == initialCheck.pc = "served" /\ initialCheck'.pc = "done"

\* the listener's last run handled the loss of the session, and nothing has
\* run in the Dashboard since
lossHandled == lastRun = [op |-> "onAuthStateChange", session |-> NoSession]

\* C21: once the listener has handled a session loss, the result of the
\* getSession() requested at mount, resolving afterwards, does not set the
\* principal back to a non-null value.
C21_LateCheckKeepsLoss ==
    [][(lossHandled /\ initialCheckResolves) => user' = NoUser]_vars

----------------------------------------------------------------------------
(* Claims about remote keys and catalog paths (KeySpec) *)

\* the puts that succeeded: batch b stored its file i under keys[i]
uploads == {bi \in (DOMAIN batches) \X (1..MaxOps) :
               bi[2] \in DOMAIN batches[bi[1]].put /\ batches[bi[1]].put[bi[2]] = "ok"}

uploadedKey(bi) == batches[bi[1]].keys[bi[2]]

\* the name of the local file, as a name with nothing in front
originalName(bi) == [stamp |-> NoStamp, parts |-> batches[bi[1]].files[bi[2]]]

\* the loadFiles l sets the cache from its listing in this step
listingApplied(l) == loads[l].pc = "served" /\ loads'[l].pc = "done"

\* every uploaded object of the listing's folder that the listing holds is in
\* the new cache with its key as path and the category of its original name
derivedAsUploaded(l) ==
    \A bi \in uploads :
        (/\ uploadedKey(bi).prefix = loads[l].uid
         /\ listedName(uploadedKey(bi)) \in Range(loads[l].data))
        => \E k \in DOMAIN files' :
               /\ files'[k].name = listedName(uploadedKey(bi))
               /\ files'[k].path = uploadedKey(bi)
               /\ files'[k].category = categoryByExtension(originalName(bi))

\* the keys of the remove, createSignedUrl and download requests issued in this step
targeted ==
    (IF Len(deletes') > Len(deletes) THEN {deletes'[Len(deletes')].file.path} ELSE {})
    \cup (IF Len(transfers') > Len(transfers)
          THEN {transfers'[Len(transfers')].file.path} ELSE {})

\* a request for an uploaded object goes to a key under the current principal's id
targetsOwnKeys ==
    \A bi \in uploads : uploadedKey(bi) \in targeted => uploadedKey(bi).prefix = user

\* C22: the catalog derives, for every uploaded object in a listing of its
\* principal's folder, the key it was uploaded under as path and the category
\* of its original name; and open, download and delete of an uploaded object
\* go to a key with the current principal's id as prefix.
C22_CatalogPathIsUploadKey ==
    [][/\ \A l \in DOMAIN loads : listingApplied(l) => derivedAsUploaded(l)
       /\ targetsOwnKeys]_vars

====
